---- MODULE Spec2Model ----
(***************************************************************************)
(* A model of the bittorrent client library (src/src/lib.rs) and of its    *)
(* command driver (src/src/main.rs).                                       *)
(*                                                                         *)
(* Bytes are integers 0..255 and byte buffers are sequences of them, so    *)
(* the bencode text is modelled character by character.  A Rust panic      *)
(* (unwrap on None/Err, an index or slice out of range, panic!, a failed   *)
(* assert!) is the result status "panic": the call returns nothing.        *)
(***************************************************************************)
EXTENDS Integers, Sequences, FiniteSets, TLC

VARIABLES
    \* bencode codec (decode_bencoded_value / encode_bencoded_value)
    origin,      \* where the input buffer came from: "value", "raw", "unordered"
    val,         \* the Value the caller encodes (origin "value")
    pairs,       \* the key/value pairs a foreign writer emitted (origin "unordered")
    buf,         \* the encoded bytes handed to decode_bencoded_value
    pc,          \* position of the codec caller
    res,         \* what decode_bencoded_value returned
    out,         \* what encode_bencoded_value returned for the decoded value
    \* metainfo (parse_metainfo_file, Metainfo::decode, piece_hashes)
    source_info, \* the info dictionary the torrent's author encoded into the file
    file,        \* the bytes of the torrent file
    mpc,         \* position of the `info` command
    metainfo,    \* what parse_metainfo_file returned
    hashes,      \* what piece_hashes() yielded
    \* tracker (TrackerRequest::url, TrackerResponse::decode)
    treq,        \* the TrackerRequest
    tmeta,       \* the Metainfo handed to url()
    url,         \* what url() returned
    interval_in, \* the interval the tracker put in its response
    peer_bytes,  \* the compact peers string the tracker put in its response
    body,        \* the bytes of the tracker's response body
    tpc,         \* position of the tracker exchange
    tresp,       \* what TrackerResponse::decode returned
    \* handshake (HandshakeRequest::encode, HandshakeResponse::decode)
    hs_mode,     \* who is at the remote end: "loopback" or "peer"
    hs_req,      \* the HandshakeRequest
    hs_out,      \* the bytes encode wrote to the stream
    hs_frame,    \* the bytes the remote end sends
    hs_arrived,  \* how many of them have arrived
    hs_eof,      \* the remote end closed the stream
    hs_pos,      \* how many bytes decode has consumed
    hs_length,   \* decode's `length`
    hs_pc,       \* position of establish()
    hs_info_hash,\* decode's `info_hash`
    hs_resp,     \* what HandshakeResponse::decode returned
    \* download_piece (main.rs)
    dl_info,     \* metainfo.info(): length and piece_length
    piece_index, \* the piece the command names
    prior_file,  \* the file at the output path before the command ran
    output_file, \* the file at the output path
    inbox,       \* messages the peer sent that have not been read
    peer_closed, \* the peer closed the stream
    events,      \* the messages read from and written to the stream, in order
    dl_piece_length, \* the effective length of the piece (`piece_length`)
    remaining_piece, \* the bytes of the piece not yet requested
    req,         \* the last PeerMessageRequest sent
    accepted,    \* the responses whose block was written, each with its request
    dl_pc        \* position of the download_piece command

codecVars == <<origin, val, pairs, buf, pc, res, out>>
metaVars == <<source_info, file, mpc, metainfo, hashes>>
trackerVars == <<treq, tmeta, url, interval_in, peer_bytes, body, tpc, tresp>>
handshakeVars == <<hs_mode, hs_req, hs_out, hs_frame, hs_arrived, hs_eof, hs_pos,
                   hs_length, hs_pc, hs_info_hash, hs_resp>>
downloadVars == <<dl_info, piece_index, prior_file, output_file, inbox, peer_closed,
                  events, dl_piece_length, remaining_piece, req, accepted, dl_pc>>
vars == <<codecVars, metaVars, trackerVars, handshakeVars, downloadVars>>

(***************************************************************************)
(* Bytes of the bencode grammar.                                           *)
(***************************************************************************)
CH_COLON == 58
CH_e == 101
CH_i == 105
CH_l == 108
CH_d == 100
CH_MINUS == 45
CH_PLUS == 43
CH_0 == 48
CH_9 == 57

\* u8::is_ascii_digit
is_ascii_digit(b) == CH_0 <= b /\ b <= CH_9

\* &s[a..b] with 0-based, half-open bounds (the caller checks a <= b <= len)
Slice(s, a, b) == SubSeq(s, a + 1, b)

\* iter().position(|v| *v == byte): 0-based index of the first match, -1 for None
Position(s, byte) ==
    IF \E k \in 1..Len(s) : s[k] = byte
    THEN (CHOOSE k \in 1..Len(s) : s[k] = byte /\ \A j \in 1..(k - 1) : s[j] # byte) - 1
    ELSE -1

(***************************************************************************)
(* Integer <-> decimal text                                                *)
(***************************************************************************)
RECURSIVE DigitsOf(_)
DigitsOf(n) ==
    IF n < 10 THEN <<CH_0 + n>> ELSE DigitsOf(n \div 10) \o <<CH_0 + (n % 10)>>

\* to_string() of an integer (i64, usize, u16, u64, u8)
to_string(n) == IF n < 0 THEN <<CH_MINUS>> \o DigitsOf(0 - n) ELSE DigitsOf(n)

RECURSIVE DigitsValue(_)
DigitsValue(ds) ==
    IF Len(ds) = 0 THEN 0
    ELSE 10 * DigitsValue(SubSeq(ds, 1, Len(ds) - 1)) + (ds[Len(ds)] - CH_0)

\* String::from_utf8_lossy(bytes).parse::<i64>(): an optional sign, then one or
\* more decimal digits and nothing else.  (The digit spans of the bounded
\* inputs are far too short to overflow an i64.)
ParseI64(s) ==
    LET signed == Len(s) > 0 /\ s[1] \in {CH_MINUS, CH_PLUS}
        ds     == IF signed THEN Tail(s) ELSE s
    IN  IF Len(ds) = 0 \/ \E k \in 1..Len(ds) : ~is_ascii_digit(ds[k])
        THEN [ok |-> FALSE, val |-> 0]
        ELSE [ok |-> TRUE,
              val |-> IF signed /\ s[1] = CH_MINUS THEN 0 - DigitsValue(ds)
                      ELSE DigitsValue(ds)]

\* String::from_utf8: within the modelled alphabets the only bytes >= 128 are
\* 0xFF, which no UTF-8 text contains, so validity is "every byte is ASCII".
IsUtf8(s) == \A k \in 1..Len(s) : s[k] < 128

(***************************************************************************)
(* enum Value                                                              *)
(***************************************************************************)
Bytes(b)      == [t |-> "Bytes",      b |-> b,    i |-> 0, l |-> <<>>, d |-> <<>>]
Integer(n)    == [t |-> "Integer",    b |-> <<>>, i |-> n, l |-> <<>>, d |-> <<>>]
List(l)       == [t |-> "List",       b |-> <<>>, i |-> 0, l |-> l,    d |-> <<>>]
\* BTreeMap<String, Value>: the entries as a sequence in iteration order
Dictionary(d) == [t |-> "Dictionary", b |-> <<>>, i |-> 0, l |-> <<>>, d |-> d]
NoValue       == [t |-> "None",       b |-> <<>>, i |-> 0, l |-> <<>>, d |-> <<>>]

\* Ord for String / [u8]: byte-lexicographic, a proper prefix sorts first
BytesLess(x, y) ==
    \E k \in 1..(Len(y)) :
        /\ \A j \in 1..(k - 1) : j <= Len(x) /\ x[j] = y[j]
        /\ Len(x) >= k - 1
        /\ (Len(x) = k - 1 \/ x[k] < y[k])

\* A mutated insert: the entry is appended in arrival order.
MapInsertAppend(map, key, value) == Append(map, [k |-> key, v |-> value])

\* BTreeMap::insert: replaces the value of an equal key, else inserts in key order
MapInsert(map, key, value) ==
    IF \E n \in 1..Len(map) : map[n].k = key
    THEN [n \in 1..Len(map) |->
            IF map[n].k = key THEN [k |-> key, v |-> value] ELSE map[n]]
    ELSE LET below == Cardinality({n \in 1..Len(map) : BytesLess(map[n].k, key)})
         IN  SubSeq(map, 1, below) \o <<[k |-> key, v |-> value]>>
             \o SubSeq(map, below + 1, Len(map))

\* BTreeMap::remove: the removed value (None when absent) and the remaining map
MapRemove(map, key) ==
    IF \E n \in 1..Len(map) : map[n].k = key
    THEN LET at == CHOOSE n \in 1..Len(map) : map[n].k = key
         IN  [some |-> TRUE, v |-> map[at].v,
              rest |-> SubSeq(map, 1, at - 1) \o SubSeq(map, at + 1, Len(map))]
    ELSE [some |-> FALSE, v |-> NoValue, rest |-> map]

(***************************************************************************)
(* encode_bencoded_value                                                   *)
(***************************************************************************)
RECURSIVE encode_bencoded_value(_), EncodeItems(_), EncodeEntries(_)

\* for item in list { extend(encode(item)) }
EncodeItems(list) ==
    IF Len(list) = 0 THEN <<>>
    ELSE encode_bencoded_value(Head(list)) \o EncodeItems(Tail(list))

\* for (key, value) in dictionary { extend(encode(Bytes(key))); extend(encode(value)) }
EncodeEntries(dictionary) ==
    IF Len(dictionary) = 0 THEN <<>>
    ELSE encode_bencoded_value(Bytes(Head(dictionary).k))
         \o encode_bencoded_value(Head(dictionary).v)
         \o EncodeEntries(Tail(dictionary))

encode_bencoded_value(v) ==
    CASE v.t = "Bytes"      -> to_string(Len(v.b)) \o <<CH_COLON>> \o v.b
      [] v.t = "Integer"    -> <<CH_i>> \o to_string(v.i) \o <<CH_e>>
      [] v.t = "List"       -> <<CH_l>> \o EncodeItems(v.l) \o <<CH_e>>
      [] v.t = "Dictionary" -> <<CH_d>> \o EncodeEntries(v.d) \o <<CH_e>>

(***************************************************************************)
(* decode_bencoded_value                                                   *)
(***************************************************************************)
Panic == [status |-> "panic", value |-> NoValue, read |-> 0]
Ok(v, n) == [status |-> "ok", value |-> v, read |-> n]

RECURSIVE decode_bencoded_value(_), DecodeListLoop(_, _, _), DecodeDictLoop(_, _, _)

\* the `loop` of the list branch, entered with pos = 1
DecodeListLoop(ev, pos, elements) ==
    LET remaining == Slice(ev, pos, Len(ev))
    IN  IF Len(remaining) = 0 THEN Panic                    \* remaining[0]
        ELSE IF remaining[1] = CH_e THEN Ok(List(elements), pos)
        ELSE LET r == decode_bencoded_value(remaining)
             IN  IF r.status # "ok" THEN Panic
                 ELSE DecodeListLoop(ev, pos + r.read, Append(elements, r.value))

\* the `loop` of the dictionary branch, entered with pos = 1
DecodeDictLoop(ev, pos, map) ==
    LET remaining == Slice(ev, pos, Len(ev))
    IN  IF Len(remaining) = 0 THEN Panic                    \* remaining[0]
        ELSE IF remaining[1] = CH_e THEN Ok(Dictionary(map), pos)
        ELSE LET kr == decode_bencoded_value(remaining)
             IN  IF kr.status # "ok" THEN Panic
                 ELSE IF kr.value.t # "Bytes" THEN Panic    \* _ => panic!()
                 ELSE IF ~IsUtf8(kr.value.b) THEN Panic     \* String::from_utf8(..).unwrap()
                 ELSE LET pos2 == pos + kr.read
                          vr   == decode_bencoded_value(Slice(ev, pos2, Len(ev)))
                      IN  IF vr.status # "ok" THEN Panic
                          ELSE DecodeDictLoop(ev, pos2 + vr.read,
                                              MapInsert(map, kr.value.b, vr.value))

decode_bencoded_value(ev) ==
    IF Len(ev) = 0 THEN Panic                               \* encoded_value[0]
    ELSE IF is_ascii_digit(ev[1]) THEN
        LET colon_index == Position(ev, CH_COLON)
        IN  IF colon_index < 0 THEN Panic
            ELSE LET number == ParseI64(Slice(ev, 0, colon_index))
                 IN  IF ~number.ok THEN Panic
                     ELSE LET read == colon_index + 1 + number.val
                          IN  IF read > Len(ev) THEN Panic  \* slice end out of range
                              ELSE Ok(Bytes(Slice(ev, colon_index + 1, read)), read)
    ELSE IF ev[1] = CH_i THEN
        LET e_index == Position(ev, CH_e)
        IN  IF e_index < 0 THEN Panic
            ELSE LET integer == ParseI64(Slice(ev, 1, e_index))
                 IN  IF ~integer.ok THEN Panic
                     ELSE Ok(Integer(integer.val), e_index + 1)
    ELSE IF ev[1] = CH_l THEN DecodeListLoop(ev, 1, <<>>)
    ELSE IF ev[1] = CH_d THEN DecodeDictLoop(ev, 1, <<>>)
    ELSE Panic                                              \* panic!("Unhandled ...")

(***************************************************************************)
(* Inputs of the codec                                                     *)
(***************************************************************************)
MaxListLen == 2
MaxRawLen == 4
MaxPairs == 3

\* "", "e:" as byte strings; 0, -5 and 12 as integers
LeafValues ==
    {Bytes(<<>>), Bytes(<<CH_e, CH_COLON>>), Integer(0), Integer(0 - 5), Integer(12)}

\* dictionary keys "a", "b" and "ab"
KeyA == <<97>>
KeyB == <<98>>
KeyAB == <<97, 98>>

SeqsUpTo(S, n) == UNION {[1..m -> S] : m \in 0..n}

RECURSIVE MapOfKeys(_, _)
MapOfKeys(f, K) ==
    IF K = {} THEN <<>>
    ELSE LET key == CHOOSE x \in K : TRUE
         IN  MapInsert(MapOfKeys(f, K \ {key}), key, f[key])

ListsOver(S) == {List(l) : l \in SeqsUpTo(S, MaxListLen)}
DictsOver(S) ==
    {Dictionary(MapOfKeys(f, DOMAIN f)) : f \in UNION {[K -> S] : K \in SUBSET {KeyA, KeyB}}}

\* every constructible Value nested to depth two
Values1 == LeafValues \cup ListsOver(LeafValues) \cup DictsOver(LeafValues)
Values == Values1 \cup ListsOver(Values1) \cup DictsOver(Values1)

\* bytes that may follow an encoded value in the caller's buffer: none, or "i1e"
Trails == {<<>>, <<CH_i, 49, CH_e>>}

\* arbitrary caller bytes over the alphabet 1 : e i l d - x
RawBufs == SeqsUpTo({49, CH_COLON, CH_e, CH_i, CH_l, CH_d, CH_MINUS, 120}, MaxRawLen)

\* what a foreign bencode writer puts between "d" and "e": entries in the order
\* given, sorted or not, keys repeated or not
PairValues == {Integer(1), Bytes(<<CH_e>>), List(<<>>)}
PairSeqs == SeqsUpTo([k : {KeyA, KeyB, KeyAB}, v : PairValues], MaxPairs)

RECURSIVE WritePairs(_)
WritePairs(ps) ==
    IF Len(ps) = 0 THEN <<>>
    ELSE encode_bencoded_value(Bytes(Head(ps).k)) \o encode_bencoded_value(Head(ps).v)
         \o WritePairs(Tail(ps))

NoResult == [status |-> "none", value |-> NoValue, read |-> 0]

(***************************************************************************)
(* The codec's callers: encode a value, decode a buffer, encode what was   *)
(* decoded (the unit tests' sequence).                                     *)
(***************************************************************************)
CodecIdle ==
    /\ origin = "idle" /\ val = NoValue /\ pairs = <<>> /\ buf = <<>>
    /\ pc = "idle" /\ res = NoResult /\ out = <<>>

CodecInit ==
    /\ pairs = <<>> /\ res = NoResult /\ out = <<>>
    /\ \/ origin = "value" /\ val \in Values /\ buf = <<>> /\ pc = "encode"
       \/ origin = "raw" /\ val = NoValue /\ buf \in RawBufs /\ pc = "decode"

DictInit ==
    /\ origin = "unordered" /\ val = NoValue /\ res = NoResult /\ out = <<>>
    /\ pairs \in PairSeqs
    /\ buf = <<CH_d>> \o WritePairs(pairs) \o <<CH_e>>
    /\ pc = "decode"

EncodeInput ==
    /\ pc = "encode"
    /\ \E trail \in Trails : buf' = encode_bencoded_value(val) \o trail
    /\ pc' = "decode"
    /\ UNCHANGED <<origin, val, pairs, res, out>>
    /\ UNCHANGED <<metaVars, trackerVars, handshakeVars, downloadVars>>

Decode ==
    /\ pc = "decode"
    /\ res' = decode_bencoded_value(buf)
    /\ pc' = "decoded"
    /\ UNCHANGED <<origin, val, pairs, buf, out>>
    /\ UNCHANGED <<metaVars, trackerVars, handshakeVars, downloadVars>>

Reencode ==
    /\ pc = "decoded"
    /\ res.status = "ok"
    /\ out' = encode_bencoded_value(res.value)
    /\ pc' = "done"
    /\ UNCHANGED <<origin, val, pairs, buf, res>>
    /\ UNCHANGED <<metaVars, trackerVars, handshakeVars, downloadVars>>

CodecNext == EncodeInput \/ Decode \/ Reencode
DictNext == Decode \/ Reencode


(***************************************************************************)
(* The bencode grammar, read independently of the decoder: RefEnd(b, p) is *)
(* the 0-based offset just past the well-formed value that starts at       *)
(* offset p of b, and -1 when no well-formed value starts there.           *)
(***************************************************************************)
RECURSIVE RefEnd(_, _), RefItemsEnd(_, _), RefEntriesEnd(_, _)

RefDigitsEnd(b, p) ==
    IF \E q \in p..(Len(b) - 1) : ~is_ascii_digit(b[q + 1])
    THEN CHOOSE q \in p..(Len(b) - 1) :
            ~is_ascii_digit(b[q + 1]) /\ \A r \in p..(q - 1) : is_ascii_digit(b[r + 1])
    ELSE Len(b)

RefStringEnd(b, p) ==
    LET c == RefDigitsEnd(b, p)
    IN  IF p >= Len(b) \/ c = p \/ c >= Len(b) \/ b[c + 1] # CH_COLON THEN -1
        ELSE LET n == DigitsValue(Slice(b, p, c))
             IN  IF c + 1 + n > Len(b) THEN -1 ELSE c + 1 + n

RefItemsEnd(b, p) ==
    IF p >= Len(b) THEN -1
    ELSE IF b[p + 1] = CH_e THEN p + 1
    ELSE LET q == RefEnd(b, p) IN IF q < 0 THEN -1 ELSE RefItemsEnd(b, q)

RefEntriesEnd(b, p) ==
    IF p >= Len(b) THEN -1
    ELSE IF b[p + 1] = CH_e THEN p + 1
    ELSE LET k == RefStringEnd(b, p)
         IN  IF k < 0 THEN -1
             ELSE LET q == RefEnd(b, k) IN IF q < 0 THEN -1 ELSE RefEntriesEnd(b, q)

RefEnd(b, p) ==
    IF p >= Len(b) THEN -1
    ELSE IF is_ascii_digit(b[p + 1]) THEN RefStringEnd(b, p)
    ELSE IF b[p + 1] = CH_i THEN
        LET s == IF p + 1 < Len(b) /\ b[p + 2] = CH_MINUS THEN p + 2 ELSE p + 1
            c == RefDigitsEnd(b, s)
        IN  IF c = s \/ c >= Len(b) \/ b[c + 1] # CH_e THEN -1 ELSE c + 1
    ELSE IF b[p + 1] = CH_l THEN RefItemsEnd(b, p + 1)
    ELSE IF b[p + 1] = CH_d THEN RefEntriesEnd(b, p + 1)
    ELSE -1

\* the buffer starts with a well-formed bencode value
WellFormed(b) == RefEnd(b, 0) >= 0

\* the keys of a well-formed dictionary's entries, in the order they are written
RECURSIVE RefKeysFrom(_, _)
RefKeysFrom(b, p) ==
    IF b[p + 1] = CH_e THEN <<>>
    ELSE LET k == RefStringEnd(b, p)
             c == RefDigitsEnd(b, p)
         IN  <<Slice(b, c + 1, k)>> \o RefKeysFrom(b, RefEnd(b, k))
RefTopKeys(b) == RefKeysFrom(b, 1)

KeysOf(d) == [n \in 1..Len(d) |-> d[n].k]
StrictlyAscending(ks) == \A m, n \in 1..Len(ks) : m < n => BytesLess(ks[m], ks[n])
Scalar(v) == v.t \in {"Bytes", "Integer"}

(***************************************************************************)
(* Properties of the codec                                                 *)
(***************************************************************************)

\* C1: round trip -- decoding the encoding of any constructible Value returns
\* a value equal to it.
C1_RoundTrip ==
    (origin = "value" /\ pc \in {"decoded", "done"})
        => (res.status = "ok" /\ res.value = val)

\* C2: canonical stability -- a canonical encoding b, decoded and encoded again,
\* gives bytes identical to b.
C2_CanonicalStability ==
    (origin = "value" /\ buf = encode_bencoded_value(val))
        => /\ pc = "decoded" => res.status = "ok"
           /\ pc = "done" => out = buf

\* C3: bytes_consumed is the number of input bytes the decoded value occupies,
\* whatever follows it in the buffer, for each of the four kinds.
C3_BytesConsumed ==
    (origin = "value" /\ pc \in {"decoded", "done"})
        => (res.status = "ok" /\ res.read = Len(encode_bencoded_value(val)))

\* C4: an input that does not start with a well-formed bencode value makes
\* decode return a FormatError result and no Value, never abort.
C4_MalformedIsFormatError ==
    (origin = "raw" /\ pc = "decoded" /\ ~WellFormed(buf))
        => (res.status = "FormatError" /\ res.value = NoValue)

\* C5: whatever order the keys of a bencoded dictionary are read in, the
\* decoded dictionary iterates, and encode emits, its keys in ascending
\* byte-lexicographic order, each key once.
C5_DictionaryOrdering ==
    (origin = "unordered" /\ pc \in {"decoded", "done"})
        => /\ res.status = "ok" /\ res.value.t = "Dictionary"
           /\ StrictlyAscending(KeysOf(res.value.d))
           /\ (\A n \in 1..Len(pairs) : Scalar(pairs[n].v))
                => {res.value.d[n].k : n \in 1..Len(res.value.d)}
                     = {pairs[n].k : n \in 1..Len(pairs)}
           /\ pc = "done" => /\ WellFormed(out)
                             /\ RefTopKeys(out) = KeysOf(res.value.d)
                             /\ StrictlyAscending(RefTopKeys(out))

\* C5 witness: three entries written in descending key order with a repeated
\* key have been decoded and encoded again.
C5_Witness ==
    /\ origin = "unordered" /\ pc = "done" /\ Len(pairs) = 3
    /\ BytesLess(pairs[2].k, pairs[1].k) /\ pairs[3].k = pairs[1].k
    /\ pairs[3].v # pairs[1].v
    /\ Len(res.value.d) = 2

(***************************************************************************)
(* Metainfo                                                                *)
(***************************************************************************)
HASH_LEN == 20

K_announce == <<97, 110, 110, 111, 117, 110, 99, 101>>                \* "announce"
K_info == <<105, 110, 102, 111>>                                      \* "info"
K_length == <<108, 101, 110, 103, 116, 104>>                          \* "length"
K_name == <<110, 97, 109, 101>>                                       \* "name"
K_piece_length == <<112, 105, 101, 99, 101, 32, 108, 101, 110, 103, 116, 104>>  \* "piece length"
K_pieces == <<112, 105, 101, 99, 101, 115>>                           \* "pieces"

\* sha1::Sha1 digest, as a collision-free function of the hashed bytes
Sha1(bytes) == [sha1_of |-> bytes]

MPanic == [status |-> "panic"]

\* usize::try_from(i64)
FitsUsize(n) == n >= 0

\* the bytes MetainfoInfo::decode digests: the re-encoding of the whole value
HashedBytes(value) == encode_bencoded_value(value)

MetainfoInfo_decode(value) ==
    LET hash == Sha1(HashedBytes(value))
    IN  IF value.t # "Dictionary" THEN MPanic
        ELSE LET length == MapRemove(value.d, K_length)
                 name == MapRemove(length.rest, K_name)
                 piece_length == MapRemove(name.rest, K_piece_length)
                 pieces == MapRemove(piece_length.rest, K_pieces)
             IN  IF ~length.some \/ length.v.t # "Integer" THEN MPanic
                 ELSE IF ~name.some \/ name.v.t # "Bytes" \/ ~IsUtf8(name.v.b) THEN MPanic
                 ELSE IF ~piece_length.some \/ piece_length.v.t # "Integer" THEN MPanic
                 ELSE IF ~pieces.some \/ pieces.v.t # "Bytes" THEN MPanic
                 ELSE IF ~FitsUsize(length.v.i) \/ ~FitsUsize(piece_length.v.i) THEN MPanic
                 ELSE [status |-> "ok", length |-> length.v.i, name |-> name.v.b,
                       piece_length |-> piece_length.v.i, pieces |-> pieces.v.b,
                       hash |-> hash]

Metainfo_decode(value) ==
    IF value.t # "Dictionary" THEN MPanic
    ELSE LET announce == MapRemove(value.d, K_announce)
             info == MapRemove(announce.rest, K_info)
         IN  IF ~announce.some \/ announce.v.t # "Bytes" \/ ~IsUtf8(announce.v.b)
             THEN MPanic
             ELSE IF ~info.some THEN MPanic
             ELSE LET decoded == MetainfoInfo_decode(info.v)
                  IN  IF decoded.status # "ok" THEN MPanic
                      ELSE [status |-> "ok", announce |-> announce.v.b, info |-> decoded]

\* slice::chunks(n): consecutive chunks of n bytes, the last one shorter when
\* the length is not a multiple of n
chunks(s, n) ==
    [c \in 1..((Len(s) + n - 1) \div n) |->
        SubSeq(s, (c - 1) * n + 1, IF c * n < Len(s) THEN c * n ELSE Len(s))]

piece_hashes(info) == chunks(info.pieces, HASH_LEN)

parse_metainfo_file(bytes) ==
    LET decoded == decode_bencoded_value(bytes)
    IN  IF decoded.status # "ok" THEN MPanic ELSE Metainfo_decode(decoded.value)

(***************************************************************************)
(* Torrent files                                                           *)
(***************************************************************************)
RECURSIVE MapOfEntries(_)
MapOfEntries(S) ==
    IF S = {} THEN <<>>
    ELSE LET e == CHOOSE x \in S : TRUE
         IN  MapInsert(MapOfEntries(S \ {e}), e.k, e.v)

\* n bytes of piece digests: digest c is made of the byte c
PiecesOfLen(n) == [m \in 1..n |-> ((m - 1) \div HASH_LEN) + 1]

MaxLength == 3
MaxPieceLength == 2
MaxDigests == 2

\* byte lengths of the pieces string: whole digests, and one byte too many
PiecesLens == {c * HASH_LEN : c \in 0..MaxDigests} \cup {HASH_LEN + 1}

\* entries of an info dictionary that this client does not read:
\* "files" (a list, sorts before "length"), "private" (an integer),
\* "profiles" (a list), "source" (a byte string; sorts last)
InfoExtras ==
    { [k |-> <<102, 105, 108, 101, 115>>, v |-> List(<<>>)],
      [k |-> <<112, 114, 105, 118, 97, 116, 101>>, v |-> Integer(1)],
      [k |-> <<112, 114, 111, 102, 105, 108, 101, 115>>, v |-> List(<<Dictionary(<<>>)>>)],
      [k |-> <<115, 111, 117, 114, 99, 101>>, v |-> Bytes(<<115>>)] }

\* entries of the outer dictionary besides announce and info:
\* "comment" (a byte string), "announce-list" (a list of lists)
OuterExtras ==
    { [k |-> <<99, 111, 109, 109, 101, 110, 116>>, v |-> Bytes(<<99>>)],
      [k |-> <<97, 110, 110, 111, 117, 110, 99, 101, 45, 108, 105, 115, 116>>,
       v |-> List(<<List(<<>>)>>)] }

InfoDict(length, piece_length, pieces_len, extras) ==
    Dictionary(MapOfEntries(
        { [k |-> K_length, v |-> Integer(length)],
          [k |-> K_name, v |-> Bytes(<<110>>)],
          [k |-> K_piece_length, v |-> Integer(piece_length)],
          [k |-> K_pieces, v |-> Bytes(PiecesOfLen(pieces_len))] } \cup extras))

TorrentDict(info, extras) ==
    Dictionary(MapOfEntries(
        { [k |-> K_announce, v |-> Bytes(<<117>>)],
          [k |-> K_info, v |-> info] } \cup extras))

NoMetainfo == [status |-> "none"]

MetaIdle ==
    /\ source_info = NoValue /\ file = <<>> /\ mpc = "idle"
    /\ metainfo = NoMetainfo /\ hashes = <<>>

MetaInit ==
    /\ \E length \in (0 - 1)..MaxLength, piece_length \in 0..MaxPieceLength,
          pieces_len \in PiecesLens, extras \in SUBSET InfoExtras :
            source_info = InfoDict(length, piece_length, pieces_len, extras)
    /\ \E extras \in SUBSET OuterExtras :
            file = encode_bencoded_value(TorrentDict(source_info, extras))
    /\ mpc = "parse" /\ metainfo = NoMetainfo /\ hashes = <<>>

\* main, command "info": let metainfo = parse_metainfo_file(..).unwrap()
ParseMetainfoFile ==
    /\ mpc = "parse"
    /\ metainfo' = parse_metainfo_file(file)
    /\ mpc' = IF metainfo'.status = "ok" THEN "parsed" ELSE "aborted"
    /\ UNCHANGED <<source_info, file, hashes>>
    /\ UNCHANGED <<codecVars, trackerVars, handshakeVars, downloadVars>>

\* main, command "info": for piece_hash in metainfo.info().piece_hashes()
PieceHashes ==
    /\ mpc = "parsed"
    /\ hashes' = piece_hashes(metainfo.info)
    /\ mpc' = "listed"
    /\ UNCHANGED <<source_info, file, metainfo>>
    /\ UNCHANGED <<codecVars, trackerVars, handshakeVars, downloadVars>>

MetaNext == ParseMetainfoFile \/ PieceHashes

(***************************************************************************)
(* Properties of the metainfo model                                        *)
(***************************************************************************)

\* C6: the info_hash of a decoded Metainfo is the digest of exactly the source
\* bytes of the info sub-value, unknown entries and entries after a nested
\* list or dictionary included.
C6_InfoHashOfSourceBytes ==
    (mpc \in {"parsed", "listed"})
        => metainfo.info.hash = Sha1(encode_bencoded_value(source_info))

\* C7: every Metainfo that decoding returns has a pieces string that is a whole
\* number of 20-byte digests, piece_hashes() yields only 20-byte elements, and
\* their number is ceil(length / piece_length).
C7_PieceHashesInvariant ==
    (mpc \in {"parsed", "listed"})
        => /\ Len(metainfo.info.pieces) % HASH_LEN = 0
           /\ mpc = "listed" =>
                /\ \A c \in 1..Len(hashes) : Len(hashes[c]) = HASH_LEN
                /\ metainfo.info.piece_length > 0
                /\ Len(hashes) * metainfo.info.piece_length >= metainfo.info.length
                /\ (Len(hashes) - 1) * metainfo.info.piece_length < metainfo.info.length

(***************************************************************************)
(* Tracker                                                                 *)
(***************************************************************************)
CH_PERCENT == 37
CH_QUESTION == 63
CH_AMP == 38
CH_EQ == 61
PEER_LEN == 6

HexDigit(n) == IF n < 10 THEN CH_0 + n ELSE 55 + n       \* '0'..'9', 'A'..'F'

\* urlencoding::encode_binary: ASCII letters, digits and - _ . ~ are kept,
\* every other byte becomes %XX
Unreserved(b) ==
    \/ is_ascii_digit(b) \/ (65 <= b /\ b <= 90) \/ (97 <= b /\ b <= 122)
    \/ b \in {45, 95, 46, 126}

RECURSIVE encode_binary(_)
encode_binary(data) ==
    IF Len(data) = 0 THEN <<>>
    ELSE (IF Unreserved(Head(data)) THEN <<Head(data)>>
          ELSE <<CH_PERCENT, HexDigit(Head(data) \div 16), HexDigit(Head(data) % 16)>>)
         \o encode_binary(Tail(data))

S_info_hash == <<105, 110, 102, 111, 95, 104, 97, 115, 104>>          \* "info_hash"
S_peer_id == <<112, 101, 101, 114, 95, 105, 100>>                     \* "peer_id"
S_port == <<112, 111, 114, 116>>                                      \* "port"
S_uploaded == <<117, 112, 108, 111, 97, 100, 101, 100>>               \* "uploaded"
S_downloaded == <<100, 111, 119, 110, 108, 111, 97, 100, 101, 100>>   \* "downloaded"
S_left == <<108, 101, 102, 116>>                                      \* "left"
S_compact == <<99, 111, 109, 112, 97, 99, 116>>                       \* "compact"

\* TrackerRequest::url
TrackerRequest_url(self, meta) ==
    LET url_encoded_info_hash == encode_binary(meta.info.hash)
        url_encoded_peer_id == encode_binary(self.peer_id)
    IN  meta.announce \o <<CH_QUESTION>>
        \o S_info_hash \o <<CH_EQ>> \o url_encoded_info_hash \o <<CH_AMP>>
        \o S_peer_id \o <<CH_EQ>> \o url_encoded_peer_id \o <<CH_AMP>>
        \o S_port \o <<CH_EQ>> \o to_string(self.port) \o <<CH_AMP>>
        \o S_uploaded \o <<CH_EQ>> \o to_string(self.uploaded) \o <<CH_AMP>>
        \o S_downloaded \o <<CH_EQ>> \o to_string(self.downloaded) \o <<CH_AMP>>
        \o S_left \o <<CH_EQ>> \o to_string(self.left) \o <<CH_AMP>>
        \o S_compact \o <<CH_EQ>> \o to_string(IF self.compact THEN 1 ELSE 0)

K_interval == <<105, 110, 116, 101, 114, 118, 97, 108>>               \* "interval"
K_peers == <<112, 101, 101, 114, 115>>                                \* "peers"

\* slice::chunks_exact(n): the complete chunks of n bytes; a shorter remainder
\* is left out
chunks_exact(s, n) ==
    [c \in 1..(Len(s) \div n) |-> SubSeq(s, (c - 1) * n + 1, c * n)]

\* A mutated read_u16: the two bytes taken low byte first.
read_u16_le(bytes, at) == bytes[at + 1] + 256 * bytes[at + 2]

\* ReadBytesExt::read_u16::<BigEndian> with the cursor at offset `at`
read_u16_be(bytes, at) == 256 * bytes[at + 1] + bytes[at + 2]

\* the closure mapped over the chunks: read_u32 moves the cursor to offset 4,
\* read_u16 reads the port there; the address is bytes[0..3]
PeerOfChunk(bytes) ==
    [ip |-> <<bytes[1], bytes[2], bytes[3], bytes[4]>>, port |-> read_u16_be(bytes, 4)]

TPanic == [status |-> "panic", interval |-> 0, peers |-> <<>>]

\* TrackerResponse::decode
TrackerResponse_decode(value) ==
    IF value.t # "Dictionary" THEN TPanic
    ELSE LET interval == MapRemove(value.d, K_interval)
             peers == MapRemove(interval.rest, K_peers)
         IN  IF ~interval.some \/ interval.v.t # "Integer" \/ interval.v.i < 0 THEN TPanic
             ELSE IF ~peers.some \/ peers.v.t # "Bytes" THEN TPanic
             ELSE LET cs == chunks_exact(peers.v.b, PEER_LEN)
                  IN  [status |-> "ok", interval |-> interval.v.i,
                       peers |-> [c \in 1..Len(cs) |-> PeerOfChunk(cs[c])]]

\* peers(): let (resp, _) = decode_bencoded_value(&resp); TrackerResponse::decode(resp)
DecodeBody(bytes) ==
    LET decoded == decode_bencoded_value(bytes)
    IN  IF decoded.status # "ok" THEN TPanic ELSE TrackerResponse_decode(decoded.value)

(***************************************************************************)
(* Tracker inputs                                                          *)
(***************************************************************************)
MaxPeerBytes == 13

\* 20-byte arrays: "AAAA...", and one holding '&', 0xFF, 0x00, '=' and '~'
HashA == [n \in 1..HASH_LEN |-> 65]
HashB == [n \in 1..HASH_LEN |->
            CASE n = 1 -> 38 [] n = 2 -> 255 [] n = 3 -> 0 [] n = 4 -> 61
              [] n = 5 -> 126 [] OTHER -> 96 + n]
\* main's my_peer_id, "00112233445566778899", and a binary one
PeerIdA == [n \in 1..HASH_LEN |-> CH_0 + ((n - 1) \div 2)]
PeerIdB == [n \in 1..HASH_LEN |-> IF n % 2 = 0 THEN 37 ELSE 200 + n]

Requests ==
    [info_hash : {HashA, HashB}, peer_id : {PeerIdA, PeerIdB}, port : {80, 6881},
     uploaded : {0, 7}, downloaded : {0, 10}, left : {0, 92063}, compact : BOOLEAN]

\* decoded Metainfo values whose info hash is any 20-byte array
Metainfos ==
    {[status |-> "ok", announce |-> <<104, 116, 116, 112, 58, 47, 47, 116, 47, 97>>,
      info |-> [status |-> "ok", length |-> 92063, name |-> <<110>>,
                piece_length |-> 32768, pieces |-> <<>>, hash |-> h]] : h \in {HashA, HashB}}

NoRequest ==
    [info_hash |-> <<>>, peer_id |-> <<>>, port |-> 0, uploaded |-> 0,
     downloaded |-> 0, left |-> 0, compact |-> FALSE]
NoResponse == [status |-> "none", interval |-> 0, peers |-> <<>>]

\* the response body a tracker sends: its dictionary, bencoded
ResponseBody(interval, peers) ==
    encode_bencoded_value(Dictionary(MapOfEntries(
        { [k |-> K_interval, v |-> Integer(interval)],
          [k |-> K_peers, v |-> Bytes(peers)] })))

TrackerIdle ==
    /\ treq = NoRequest /\ tmeta = NoMetainfo /\ url = <<>>
    /\ interval_in = 0 /\ peer_bytes = <<>>
    /\ body = <<>> /\ tpc = "idle" /\ tresp = NoResponse

TrackerInit ==
    /\ url = <<>> /\ tresp = NoResponse
    /\ \/ /\ tpc = "build"
          /\ treq \in Requests /\ tmeta \in Metainfos
          /\ interval_in = 0 /\ peer_bytes = <<>> /\ body = <<>>
       \/ /\ tpc = "respond"
          /\ treq = NoRequest /\ tmeta = NoMetainfo
          /\ peer_bytes \in SeqsUpTo({1, 255}, MaxPeerBytes)
          /\ interval_in \in {0 - 1, 1800}
          /\ body = ResponseBody(interval_in, peer_bytes)

\* peers(): let url = req.url(metainfo)
BuildUrl ==
    /\ tpc = "build"
    /\ url' = TrackerRequest_url(treq, tmeta)
    /\ tpc' = "built"
    /\ UNCHANGED <<treq, tmeta, interval_in, peer_bytes, body, tresp>>
    /\ UNCHANGED <<codecVars, metaVars, handshakeVars, downloadVars>>

\* peers(): decode the response body
DecodeResponse ==
    /\ tpc = "respond"
    /\ tresp' = DecodeBody(body)
    /\ tpc' = IF tresp'.status = "ok" THEN "peers" ELSE "aborted"
    /\ UNCHANGED <<treq, tmeta, url, interval_in, peer_bytes, body>>
    /\ UNCHANGED <<codecVars, metaVars, handshakeVars, downloadVars>>

TrackerNext == BuildUrl \/ DecodeResponse

(***************************************************************************)
(* Properties of the tracker protocol                                      *)
(***************************************************************************)
\* the text of a URL's query split at every '&', and a parameter split at '='
RECURSIVE SplitAt(_, _)
SplitAt(s, sep) ==
    LET at == Position(s, sep)
    IN  IF at < 0 THEN <<s>>
        ELSE <<Slice(s, 0, at)>> \o SplitAt(Slice(s, at + 1, Len(s)), sep)

HexValue(c) == IF is_ascii_digit(c) THEN c - CH_0 ELSE c - 55

RECURSIVE PercentDecode(_)
PercentDecode(s) ==
    IF Len(s) = 0 THEN <<>>
    ELSE IF s[1] = CH_PERCENT /\ Len(s) >= 3
         THEN <<16 * HexValue(s[2]) + HexValue(s[3])>> \o PercentDecode(Slice(s, 3, Len(s)))
         ELSE <<s[1]>> \o PercentDecode(Tail(s))

QueryOf(u) == Slice(u, Position(u, CH_QUESTION) + 1, Len(u))
ParamName(p) == Slice(p, 0, Position(p, CH_EQ))
ParamValue(p) == Slice(p, Position(p, CH_EQ) + 1, Len(p))
IsDecimalOf(text, n) == ParseI64(text).ok /\ ParseI64(text).val = n /\ text = DigitsOf(n)

\* the URL has the shape the claim gives, whatever the two identifiers carry
UrlShape ==
    LET ps == SplitAt(QueryOf(url), CH_AMP)
    IN  /\ Position(url, CH_QUESTION) = Len(tmeta.announce)
        /\ Slice(url, 0, Len(tmeta.announce)) = tmeta.announce
        /\ Len(ps) = 7
        /\ \A n \in 1..7 : Position(ps[n], CH_EQ) >= 0
        /\ [n \in 1..7 |-> ParamName(ps[n])]
             = <<S_info_hash, S_peer_id, S_port, S_uploaded, S_downloaded, S_left, S_compact>>
        /\ IsDecimalOf(ParamValue(ps[3]), treq.port)
        /\ IsDecimalOf(ParamValue(ps[4]), treq.uploaded)
        /\ IsDecimalOf(ParamValue(ps[5]), treq.downloaded)
        /\ IsDecimalOf(ParamValue(ps[6]), treq.left)
        /\ ParamValue(ps[7]) = IF treq.compact THEN <<CH_0 + 1>> ELSE <<CH_0>>

\* C8: the announce URL is the announce string, '?', then the seven parameters
\* info_hash, peer_id, port, uploaded, downloaded, left, compact in that order;
\* the numbers are the request's fields in decimal, compact is 1 or 0, and
\* info_hash and peer_id carry the request's own info_hash and peer_id.
C8_AnnounceUrl ==
    (tpc = "built")
        => /\ UrlShape
           /\ LET ps == SplitAt(QueryOf(url), CH_AMP)
              IN  /\ PercentDecode(ParamValue(ps[1])) = treq.info_hash
                  /\ PercentDecode(ParamValue(ps[2])) = treq.peer_id

\* C9: a compact peers string of 6k bytes decodes to exactly k peers in input
\* order; peer j has the address bytes 6j..6j+3 and the port
\* 256 * byte 6j+4 + byte 6j+5.
C9_CompactPeers ==
    (tpc \in {"peers", "aborted"} /\ Len(peer_bytes) % PEER_LEN = 0)
        => /\ tpc = "peers" <=> interval_in >= 0
           /\ tpc = "peers" =>
                /\ Len(tresp.peers) * PEER_LEN = Len(peer_bytes)
                /\ \A j \in 0..(Len(tresp.peers) - 1) :
                     /\ tresp.peers[j + 1].ip =
                          <<peer_bytes[6 * j + 1], peer_bytes[6 * j + 2],
                            peer_bytes[6 * j + 3], peer_bytes[6 * j + 4]>>
                     /\ tresp.peers[j + 1].port =
                          256 * peer_bytes[6 * j + 5] + peer_bytes[6 * j + 6]

\* C9 witness: twelve bytes decoded to two peers with different ports whose
\* two port bytes differ.
C9_Witness ==
    /\ tpc = "peers" /\ Len(peer_bytes) = 12 /\ Len(tresp.peers) = 2
    /\ peer_bytes[1] # peer_bytes[2] /\ peer_bytes[5] # peer_bytes[6]
    /\ tresp.peers[1].port # tresp.peers[2].port

\* C10: a compact peers string whose length is not a multiple of 6 is rejected
\* with a FormatError; no peer list is returned for it.
C10_RaggedPeersRejected ==
    (tpc \in {"peers", "aborted"} /\ interval_in >= 0 /\ Len(peer_bytes) % PEER_LEN # 0)
        => (tresp.status = "FormatError" /\ tresp.peers = <<>>)

(***************************************************************************)
(* Handshake (HandshakeRequest::encode, HandshakeResponse::decode)         *)
(*                                                                         *)
(* The stream is the byte sequence the remote end sends (hs_frame), of     *)
(* which hs_arrived bytes have reached this end; hs_pos of them have been  *)
(* read.  read_u8 / read_exact wait until the bytes they ask for have      *)
(* arrived and return Err(UnexpectedEof) if the stream ended first; the    *)
(* unwrap() on that result panics.                                         *)
(***************************************************************************)
\* b"BitTorrent protocol"
PROTOCOL ==
    <<66, 105, 116, 84, 111, 114, 114, 101, 110, 116, 32,
      112, 114, 111, 116, 111, 99, 111, 108>>

\* let mut reserved = [0; 8] / write_all(&[0; 8])
RESERVED_LEN == 8

ZeroReserved == [n \in 1..RESERVED_LEN |-> 0]

\* a variant of encode that writes peer_id before info_hash
HandshakeRequest_encode_PeerIdFirst(self) ==
    <<Len(PROTOCOL)>> \o PROTOCOL \o ZeroReserved \o self.peer_id \o self.info_hash

\* HandshakeRequest::encode: the bytes written to the writer, in order
HandshakeRequest_encode(self) ==
    <<Len(PROTOCOL)>> \o PROTOCOL \o ZeroReserved \o self.info_hash \o self.peer_id

NoHandshake == [status |-> "none"]
HPanic == [status |-> "panic"]

\* the number of bytes the read at the decoder's position asks for
HsNeeded ==
    CASE hs_pc = "read_length"    -> 1
      [] hs_pc = "read_protocol"  -> hs_length
      [] hs_pc = "read_reserved"  -> RESERVED_LEN
      [] hs_pc = "read_info_hash" -> HASH_LEN
      [] hs_pc = "read_peer_id"   -> HASH_LEN
      [] OTHER                    -> 0

HsReading ==
    hs_pc \in {"read_length", "read_protocol", "read_reserved",
               "read_info_hash", "read_peer_id"}

\* the bytes the pending read returns once they have all arrived
HsAvailable == hs_arrived - hs_pos >= HsNeeded
HsTaken == Slice(hs_frame, hs_pos, hs_pos + HsNeeded)

(***************************************************************************)
(* Inputs                                                                  *)
(***************************************************************************)
HandshakeRequests == [info_hash : {HashA, HashB}, peer_id : {PeerIdA, PeerIdB}]

\* what follows the handshake on the stream: nothing, or a 5-byte message
Trailers == {<<>>, <<0, 0, 0, 1, 5>>}

LengthBytes == {0, 18, 19, 20, 68, 255}
Literals == {PROTOCOL, [PROTOCOL EXCEPT ![1] = 98]}
Reserveds == {ZeroReserved, [ZeroReserved EXCEPT ![6] = 16], [n \in 1..RESERVED_LEN |-> 255]}

\* 68-byte frames a remote peer may send, followed by a trailer
PeerFrames ==
    {<<l>> \o p \o r \o HashA \o PeerIdB \o t :
        l \in LengthBytes, p \in Literals, r \in Reserveds, t \in Trailers}

HandshakeIdle ==
    /\ hs_mode = "idle" /\ hs_req = [info_hash |-> <<>>, peer_id |-> <<>>]
    /\ hs_out = <<>> /\ hs_frame = <<>> /\ hs_arrived = 0 /\ hs_eof = FALSE
    /\ hs_pos = 0 /\ hs_length = 0 /\ hs_pc = "idle"
    /\ hs_info_hash = <<>> /\ hs_resp = NoHandshake

\* "loopback": the remote end is fed what encode wrote, then a trailer;
\* "peer": the remote end sends a frame of its own.
HandshakeInit ==
    /\ hs_mode \in {"loopback", "peer"}
    /\ hs_req \in HandshakeRequests
    /\ hs_frame \in (IF hs_mode = "loopback" THEN Trailers ELSE PeerFrames)
    /\ hs_out = <<>> /\ hs_arrived = 0 /\ hs_eof = FALSE
    /\ hs_pos = 0 /\ hs_length = 0 /\ hs_pc = "encode"
    /\ hs_info_hash = <<>> /\ hs_resp = NoHandshake

(***************************************************************************)
(* Actions                                                                 *)
(***************************************************************************)
\* establish(): handshake_request.encode(&mut stream)
HandshakeEncode ==
    /\ hs_pc = "encode"
    /\ hs_out' = HandshakeRequest_encode(hs_req)
    /\ hs_frame' = IF hs_mode = "loopback" THEN hs_out' \o hs_frame ELSE hs_frame
    /\ hs_pc' = "read_length"
    /\ UNCHANGED <<hs_mode, hs_req, hs_arrived, hs_eof, hs_pos, hs_length,
                   hs_info_hash, hs_resp>>
    /\ UNCHANGED <<codecVars, metaVars, trackerVars, downloadVars>>

\* one more byte of the remote end's bytes reaches this end
ByteArrives ==
    /\ hs_pc # "encode" /\ ~hs_eof /\ hs_arrived < Len(hs_frame)
    /\ hs_arrived' = hs_arrived + 1
    /\ UNCHANGED <<hs_mode, hs_req, hs_out, hs_frame, hs_eof, hs_pos, hs_length,
                   hs_pc, hs_info_hash, hs_resp>>
    /\ UNCHANGED <<codecVars, metaVars, trackerVars, downloadVars>>

\* the remote end closes the stream; what had not arrived never does
StreamEnds ==
    /\ hs_pc # "encode" /\ ~hs_eof
    /\ hs_eof' = TRUE
    /\ UNCHANGED <<hs_mode, hs_req, hs_out, hs_frame, hs_arrived, hs_pos,
                   hs_length, hs_pc, hs_info_hash, hs_resp>>
    /\ UNCHANGED <<codecVars, metaVars, trackerVars, downloadVars>>

\* let length = reader.read_u8().await.unwrap()
ReadLength ==
    /\ hs_pc = "read_length" /\ HsAvailable
    /\ hs_length' = HsTaken[1]
    /\ hs_pos' = hs_pos + HsNeeded
    /\ hs_pc' = "read_protocol"
    /\ UNCHANGED <<hs_mode, hs_req, hs_out, hs_frame, hs_arrived, hs_eof,
                   hs_info_hash, hs_resp>>
    /\ UNCHANGED <<codecVars, metaVars, trackerVars, downloadVars>>

\* read_exact(&mut protocol); assert_eq!("BitTorrent protocol", from_utf8(protocol).unwrap())
ReadProtocol ==
    /\ hs_pc = "read_protocol" /\ HsAvailable
    /\ hs_pos' = hs_pos + HsNeeded
    /\ IF IsUtf8(HsTaken) /\ HsTaken = PROTOCOL
         THEN hs_pc' = "read_reserved" /\ hs_resp' = hs_resp
         ELSE hs_pc' = "panicked" /\ hs_resp' = HPanic
    /\ UNCHANGED <<hs_mode, hs_req, hs_out, hs_frame, hs_arrived, hs_eof,
                   hs_length, hs_info_hash>>
    /\ UNCHANGED <<codecVars, metaVars, trackerVars, downloadVars>>

\* read_exact(&mut reserved): the eight bytes are read and dropped
ReadReserved ==
    /\ hs_pc = "read_reserved" /\ HsAvailable
    /\ hs_pos' = hs_pos + HsNeeded
    /\ hs_pc' = "read_info_hash"
    /\ UNCHANGED <<hs_mode, hs_req, hs_out, hs_frame, hs_arrived, hs_eof,
                   hs_length, hs_info_hash, hs_resp>>
    /\ UNCHANGED <<codecVars, metaVars, trackerVars, downloadVars>>

\* read_exact(&mut info_hash)
ReadInfoHash ==
    /\ hs_pc = "read_info_hash" /\ HsAvailable
    /\ hs_info_hash' = HsTaken
    /\ hs_pos' = hs_pos + HsNeeded
    /\ hs_pc' = "read_peer_id"
    /\ UNCHANGED <<hs_mode, hs_req, hs_out, hs_frame, hs_arrived, hs_eof,
                   hs_length, hs_resp>>
    /\ UNCHANGED <<codecVars, metaVars, trackerVars, downloadVars>>

\* read_exact(&mut peer_id); Self { info_hash, peer_id }
ReadPeerId ==
    /\ hs_pc = "read_peer_id" /\ HsAvailable
    /\ hs_resp' = [status |-> "ok", info_hash |-> hs_info_hash, peer_id |-> HsTaken]
    /\ hs_pos' = hs_pos + HsNeeded
    /\ hs_pc' = "returned"
    /\ UNCHANGED <<hs_mode, hs_req, hs_out, hs_frame, hs_arrived, hs_eof,
                   hs_length, hs_info_hash>>
    /\ UNCHANGED <<codecVars, metaVars, trackerVars, downloadVars>>

\* a read whose bytes will never arrive: Err(UnexpectedEof), and unwrap() panics
ReadFails ==
    /\ HsReading /\ ~HsAvailable /\ hs_eof
    /\ hs_pc' = "panicked" /\ hs_resp' = HPanic
    /\ UNCHANGED <<hs_mode, hs_req, hs_out, hs_frame, hs_arrived, hs_eof, hs_pos,
                   hs_length, hs_info_hash>>
    /\ UNCHANGED <<codecVars, metaVars, trackerVars, downloadVars>>

HandshakeNext ==
    \/ HandshakeEncode \/ ByteArrives \/ StreamEnds
    \/ ReadLength \/ ReadProtocol \/ ReadReserved \/ ReadInfoHash \/ ReadPeerId
    \/ ReadFails

(***************************************************************************)
(* Claims about the handshake                                              *)
(***************************************************************************)
\* C11: on a loopback pair, encode writes exactly the 68 bytes <19>,
\* "BitTorrent protocol", eight zero bytes, info_hash, peer_id; decode reading
\* them returns the same info_hash and peer_id having consumed exactly 68
\* bytes, is never left waiting once the 68 bytes have arrived, and fails only
\* if the stream ended before they did.
C11_HandshakeRoundTrip ==
    (hs_mode = "loopback" /\ hs_pc # "encode") =>
        /\ Len(hs_out) = 68
        /\ hs_out[1] = 19
        /\ Slice(hs_out, 1, 20) = PROTOCOL
        /\ \A k \in 21..28 : hs_out[k] = 0
        /\ Slice(hs_out, 28, 48) = hs_req.info_hash
        /\ Slice(hs_out, 48, 68) = hs_req.peer_id
        /\ hs_pc = "returned" =>
              /\ hs_resp.status = "ok"
              /\ hs_resp.info_hash = hs_req.info_hash
              /\ hs_resp.peer_id = hs_req.peer_id
              /\ hs_pos = 68
        /\ hs_pc = "panicked" => (hs_eof /\ hs_arrived < 68)
        /\ (HsReading /\ hs_arrived >= 68) => HsAvailable

\* C11 witness: a loopback handshake with different info_hash and peer_id was
\* decoded while the bytes of a following message were already on the stream.
C11_Witness ==
    /\ hs_mode = "loopback" /\ hs_pc = "returned"
    /\ hs_req.info_hash # hs_req.peer_id
    /\ hs_arrived > 68 /\ hs_pos = 68

HsFrameValid == hs_frame[1] = 19 /\ Slice(hs_frame, 1, 20) = PROTOCOL

\* C12: decode decides on exactly 68 bytes: no read of it waits for a byte
\* beyond the 68th; it returns a response only for a frame whose first byte is
\* 19 and whose bytes 2..20 are the protocol literal, having consumed 68 bytes;
\* for any other frame it fails and returns no response; a frame with a valid
\* prefix is accepted whatever its reserved bytes are, so it fails only when
\* the stream ends early.
C12_DecidesOnSixtyEightBytes ==
    hs_pc # "encode" =>
        /\ HsReading => hs_pos + HsNeeded <= 68
        /\ hs_pc = "returned" => (HsFrameValid /\ hs_pos = 68 /\ hs_resp.status = "ok")
        /\ hs_pc = "panicked" => hs_resp.status # "ok"
        /\ (hs_pc = "panicked" /\ HsFrameValid) => (hs_eof /\ hs_arrived < 68)

(***************************************************************************)
(* Peer messages (PeerMessageId, PeerMessageIn, PeerMessageOut,            *)
(* PeerMessageRequest, PeerMessageResponse)                                *)
(*                                                                         *)
(* A message is its id and its payload.  A payload is its leading bytes    *)
(* and, for a Piece message, the block that follows them.  A block is kept *)
(* as a run of bytes: its length and what the bytes are, namely the bytes  *)
(* of piece `index` of the torrent from offset `begin` on (genuine), or    *)
(* other bytes (not genuine); index -1 marks bytes that belong to no       *)
(* download.                                                               *)
(***************************************************************************)
Choke == 0
Unchoke == 1
Interested == 2
Have == 4
Bitfield == 5
Request == 6
Piece == 7

Run(index, begin, len, genuine) ==
    [index |-> index, begin |-> begin, len |-> len, genuine |-> genuine]
NoBlock == Run(-1, 0, 0, FALSE)

Message(id, bytes, block) ==
    [message_id |-> id, payload |-> [bytes |-> bytes, block |-> block]]

\* resp.payload().len()
PayloadLen(payload) == Len(payload.bytes) + payload.block.len

\* a big-endian 32-bit unsigned integer
U32BE(n) == <<n \div 16777216, (n \div 65536) % 256, (n \div 256) % 256, n % 256>>
read_u32_be(bytes, at) ==
    16777216 * bytes[at + 1] + 65536 * bytes[at + 2] + 256 * bytes[at + 3] + bytes[at + 4]

\* PeerMessageRequest::encode: index, begin, length as three big-endian u32
PeerMessageRequest_encode(self) ==
    U32BE(self.index) \o U32BE(self.begin) \o U32BE(self.length)

RPanic == [status |-> "panic", index |-> 0, begin |-> 0, block |-> NoBlock]

\* PeerMessageResponse::decode(payload, payload_length): index, begin, then
\* the block of payload_length - 8 bytes
PeerMessageResponse_decode(payload, payload_length) ==
    IF Len(payload.bytes) < 8 THEN RPanic
    ELSE [status |-> "ok",
          index |-> read_u32_be(payload.bytes, 0),
          begin |-> read_u32_be(payload.bytes, 4),
          block |-> [payload.block EXCEPT !.len = payload_length - 8]]

(***************************************************************************)
(* download_piece (main.rs)                                                *)
(***************************************************************************)
\* let block_size = 2_u32.pow(14)
BLOCK_SIZE == 16384

Min(a, b) == IF a < b THEN a ELSE b

\* a variant that takes every piece to be piece_length long
piece_length_of_Configured(info, index) == info.piece_length

\* length() - piece_length() * piece_index goes below zero
sub_underflows(info, index) == info.piece_length * index > info.length

\* metainfo.info().piece_length().min(length() - piece_length() * piece_index)
\* in unsigned arithmetic.  When the subtraction wraps, its value is 2^w - d
\* for the word width w (at least 32) and d = piece_length * index - length;
\* every piece_length and d of the model is below 2^31, so the wrapped value
\* is the larger one and min() yields piece_length.
piece_length_of(info, index) ==
    IF sub_underflows(info, index) THEN info.piece_length
    ELSE Min(info.piece_length, info.length - info.piece_length * index)

\* let begin = piece_length - remaining_piece
begin_of(piece_len, remaining) == piece_len - remaining

\* a variant that always asks for a whole block
block_size_of_Whole(remaining) == BLOCK_SIZE

\* let block_size = remaining_piece.min(block_size)
block_size_of(remaining) == Min(remaining, BLOCK_SIZE)

\* a variant that leaves the loop before the last block
loop_continues_SkipLast(remaining) == remaining > BLOCK_SIZE

\* while remaining_piece > 0
loop_continues(remaining) == remaining > 0

\* a variant that takes any message for the Bitfield
is_bitfield_Any(msg) == TRUE

\* matches!(available_pieces.message_id(), PeerMessageId::Bitfield)
is_bitfield(msg) == msg.message_id = Bitfield

\* matches!(unchoke.message_id(), PeerMessageId::Unchoke)
is_unchoke(msg) == msg.message_id = Unchoke

\* matches!(resp.message_id(), PeerMessageId::Piece)
is_piece(msg) == msg.message_id = Piece

\* a variant that goes on to the next request without reading the response
after_request_Pipelined == "loop"

\* req.encode(&mut stream) is followed by PeerMessageIn::decode(&mut stream)
after_request == "await_piece"

(***************************************************************************)
(* Inputs                                                                  *)
(***************************************************************************)
MaxBlocks == 2
MaxWholePieces == 2

PieceLengths == {1, BLOCK_SIZE, MaxBlocks * BLOCK_SIZE, MaxBlocks * BLOCK_SIZE + 1}

LengthsFor(pl) == {q * pl + r : q \in 0..MaxWholePieces, r \in {0, 1, pl - 1}}

Torrents ==
    UNION {[length : LengthsFor(pl), piece_length : {pl}] : pl \in PieceLengths}

\* the number of pieces of a torrent
NumPieces(info) == (info.length + info.piece_length - 1) \div info.piece_length

NoFile == [exists |-> FALSE, data |-> <<>>]
StaleFile == [exists |-> TRUE, data |-> <<Run(-1, 0, 5, FALSE)>>]

NoRequestSent == [index |-> 0, begin |-> 0, length |-> 0]

\* the messages a peer may put on the stream: signalling at any time, and
\* once a Request is outstanding a Piece that answers it faithfully, names
\* another piece or offset, carries other bytes, a block one byte short or
\* long, or stops inside its header
PeerSignals ==
    {Message(Bitfield, <<255>>, NoBlock), Message(Unchoke, <<>>, NoBlock),
     Message(Choke, <<>>, NoBlock), Message(Have, U32BE(0), NoBlock)}

PeerPieces(r) ==
    {Message(Piece, U32BE(i) \o U32BE(b), Run(i, b, n, g)) :
        <<i, b, n, g>> \in
            {<<r.index, r.begin, r.length, TRUE>>,
             <<r.index + 1, r.begin, r.length, TRUE>>,
             <<r.index, r.begin + 1, r.length, TRUE>>,
             <<r.index, r.begin, r.length, FALSE>>,
             <<r.index, r.begin, r.length - 1, TRUE>>,
             <<r.index, r.begin, r.length + 1, TRUE>>}}
    \cup {Message(Piece, U32BE(r.index), NoBlock)}

DownloadIdle ==
    /\ dl_info = [length |-> 0, piece_length |-> 0] /\ piece_index = 0
    /\ prior_file = NoFile /\ output_file = NoFile
    /\ inbox = <<>> /\ peer_closed = FALSE /\ events = <<>>
    /\ dl_piece_length = 0 /\ remaining_piece = 0 /\ req = NoRequestSent
    /\ accepted = <<>> /\ dl_pc = "idle"

\* the state at main.rs:71: the torrent is parsed, the handshake is done; the
\* piece index is any the command line may name, up to one past the last piece
DownloadInit ==
    /\ dl_info \in Torrents
    /\ piece_index \in 0..NumPieces(dl_info)
    /\ prior_file \in {NoFile, StaleFile} /\ output_file = prior_file
    /\ inbox = <<>> /\ peer_closed = FALSE /\ events = <<>>
    /\ dl_piece_length = 0 /\ remaining_piece = 0 /\ req = NoRequestSent
    /\ accepted = <<>> /\ dl_pc = "await_bitfield"

(***************************************************************************)
(* Actions                                                                 *)
(***************************************************************************)
In(msg) == [dir |-> "in", msg |-> msg]
Out(msg) == [dir |-> "out", msg |-> msg]

DlReading == dl_pc \in {"await_bitfield", "await_unchoke", "await_piece"}
DlEnded == dl_pc \in {"complete", "failed"}

\* let available_pieces = PeerMessageIn::decode(&mut stream).await; assert!(..Bitfield)
ReadBitfield ==
    /\ dl_pc = "await_bitfield" /\ inbox # <<>>
    /\ events' = Append(events, In(Head(inbox)))
    /\ inbox' = Tail(inbox)
    /\ dl_pc' = IF is_bitfield(Head(inbox)) THEN "send_interested" ELSE "failed"
    /\ UNCHANGED <<dl_info, piece_index, prior_file, output_file, peer_closed,
                   dl_piece_length, remaining_piece, req, accepted>>
    /\ UNCHANGED <<codecVars, metaVars, trackerVars, handshakeVars>>

\* PeerMessageOut { message_id: Interested, payload: &[] }.encode(&mut stream)
SendInterested ==
    /\ dl_pc = "send_interested"
    /\ events' = Append(events, Out(Message(Interested, <<>>, NoBlock)))
    /\ dl_pc' = "await_unchoke"
    /\ UNCHANGED <<dl_info, piece_index, prior_file, output_file, inbox, peer_closed,
                   dl_piece_length, remaining_piece, req, accepted>>
    /\ UNCHANGED <<codecVars, metaVars, trackerVars, handshakeVars>>

\* let unchoke = PeerMessageIn::decode(&mut stream).await; assert!(..Unchoke)
ReadUnchoke ==
    /\ dl_pc = "await_unchoke" /\ inbox # <<>>
    /\ events' = Append(events, In(Head(inbox)))
    /\ inbox' = Tail(inbox)
    /\ dl_pc' = IF is_unchoke(Head(inbox)) THEN "open_output" ELSE "failed"
    /\ UNCHANGED <<dl_info, piece_index, prior_file, output_file, peer_closed,
                   dl_piece_length, remaining_piece, req, accepted>>
    /\ UNCHANGED <<codecVars, metaVars, trackerVars, handshakeVars>>

\* remove_file(output_file_path); File::options().write(true).create(true).open(..)
OpenOutput ==
    /\ dl_pc = "open_output"
    /\ output_file' = [exists |-> TRUE, data |-> <<>>]
    /\ dl_pc' = "piece_length"
    /\ UNCHANGED <<dl_info, piece_index, prior_file, inbox, peer_closed, events,
                   dl_piece_length, remaining_piece, req, accepted>>
    /\ UNCHANGED <<codecVars, metaVars, trackerVars, handshakeVars>>

\* let piece_length = ..; let mut remaining_piece = piece_length.  When the
\* subtraction underflows, a build with overflow checks panics ("attempt to
\* subtract with overflow") and a build without them goes on with the wrapped
\* value.
EffectiveLength ==
    /\ dl_pc = "piece_length"
    /\ \/ /\ dl_piece_length' = piece_length_of(dl_info, piece_index)
          /\ remaining_piece' = dl_piece_length'
          /\ dl_pc' = "loop"
       \/ /\ sub_underflows(dl_info, piece_index)
          /\ dl_pc' = "failed"
          /\ UNCHANGED <<dl_piece_length, remaining_piece>>
    /\ UNCHANGED <<dl_info, piece_index, prior_file, output_file, inbox, peer_closed,
                   events, req, accepted>>
    /\ UNCHANGED <<codecVars, metaVars, trackerVars, handshakeVars>>

\* the loop body up to req.encode(&mut stream).await
SendRequest ==
    /\ dl_pc = "loop" /\ loop_continues(remaining_piece)
    /\ LET begin      == begin_of(dl_piece_length, remaining_piece)
           block_size == block_size_of(remaining_piece)
           request    == [index |-> piece_index, begin |-> begin, length |-> block_size]
       IN  /\ remaining_piece' = remaining_piece - block_size
           /\ req' = request
           /\ events' = Append(events,
                  Out(Message(Request, PeerMessageRequest_encode(request), NoBlock)))
    /\ dl_pc' = after_request
    /\ UNCHANGED <<dl_info, piece_index, prior_file, output_file, inbox, peer_closed,
                   dl_piece_length, accepted>>
    /\ UNCHANGED <<codecVars, metaVars, trackerVars, handshakeVars>>

\* what the three checks of the loop body make of the message read
PieceOk(msg) ==
    /\ is_piece(msg)
    /\ PeerMessageResponse_decode(msg.payload, PayloadLen(msg.payload)).status = "ok"
    /\ PeerMessageResponse_decode(msg.payload, PayloadLen(msg.payload)).block.len = req.length

\* let resp = PeerMessageIn::decode(..); assert!(..Piece); PeerMessageResponse::decode;
\* assert_eq!(resp.block().len(), block_size); output_file.write_all(resp.block())
ReadPiece ==
    /\ dl_pc = "await_piece" /\ inbox # <<>>
    /\ events' = Append(events, In(Head(inbox)))
    /\ inbox' = Tail(inbox)
    /\ LET msg  == Head(inbox)
           resp == PeerMessageResponse_decode(msg.payload, PayloadLen(msg.payload))
       IN  IF PieceOk(msg)
             THEN /\ output_file' = [output_file EXCEPT !.data = Append(@, resp.block)]
                  /\ accepted' = Append(accepted, [req |-> req, resp |-> resp])
                  /\ dl_pc' = "loop"
             ELSE /\ dl_pc' = "failed"
                  /\ UNCHANGED <<output_file, accepted>>
    /\ UNCHANGED <<dl_info, piece_index, prior_file, peer_closed, dl_piece_length,
                   remaining_piece, req>>
    /\ UNCHANGED <<codecVars, metaVars, trackerVars, handshakeVars>>

\* the same, when write_all returns an error and unwrap() panics
WriteFails ==
    /\ dl_pc = "await_piece" /\ inbox # <<>> /\ PieceOk(Head(inbox))
    /\ events' = Append(events, In(Head(inbox)))
    /\ inbox' = Tail(inbox)
    /\ dl_pc' = "failed"
    /\ UNCHANGED <<dl_info, piece_index, prior_file, output_file, peer_closed,
                   dl_piece_length, remaining_piece, req, accepted>>
    /\ UNCHANGED <<codecVars, metaVars, trackerVars, handshakeVars>>

\* the loop ends; println!("Piece {piece_index} downloaded to {output_file_path}")
Complete ==
    /\ dl_pc = "loop" /\ ~loop_continues(remaining_piece)
    /\ dl_pc' = "complete"
    /\ UNCHANGED <<dl_info, piece_index, prior_file, output_file, inbox, peer_closed,
                   events, dl_piece_length, remaining_piece, req, accepted>>
    /\ UNCHANGED <<codecVars, metaVars, trackerVars, handshakeVars>>

\* PeerMessageIn::decode on a stream the peer closed: the read fails
MessageReadFails ==
    /\ DlReading /\ inbox = <<>> /\ peer_closed
    /\ dl_pc' = "failed"
    /\ UNCHANGED <<dl_info, piece_index, prior_file, output_file, inbox, peer_closed,
                   events, dl_piece_length, remaining_piece, req, accepted>>
    /\ UNCHANGED <<codecVars, metaVars, trackerVars, handshakeVars>>

\* the peer puts a message on the stream
PeerSends ==
    /\ ~DlEnded /\ ~peer_closed /\ inbox = <<>>
    /\ \E msg \in PeerSignals \cup (IF dl_pc = "await_piece" THEN PeerPieces(req) ELSE {}) :
          inbox' = <<msg>>
    /\ UNCHANGED <<dl_info, piece_index, prior_file, output_file, peer_closed, events,
                   dl_piece_length, remaining_piece, req, accepted, dl_pc>>
    /\ UNCHANGED <<codecVars, metaVars, trackerVars, handshakeVars>>

\* the peer closes the stream
PeerCloses ==
    /\ ~DlEnded /\ ~peer_closed
    /\ peer_closed' = TRUE
    /\ UNCHANGED <<dl_info, piece_index, prior_file, output_file, inbox, events,
                   dl_piece_length, remaining_piece, req, accepted, dl_pc>>
    /\ UNCHANGED <<codecVars, metaVars, trackerVars, handshakeVars>>

\* the Pieces of a peer that answers a Request with a block of the requested
\* length, whatever index, begin and bytes it puts in it
CooperatingPieces(r) ==
    {Message(Piece, U32BE(i) \o U32BE(b), Run(i, b, r.length, g)) :
        <<i, b, g>> \in {<<r.index, r.begin, TRUE>>, <<r.index + 1, r.begin, TRUE>>,
                         <<r.index, r.begin + 1, TRUE>>, <<r.index, r.begin, FALSE>>}}

\* a peer that sends Bitfield, Unchoke once Interested was written, and one
\* Piece of the requested length for every Request
PeerCooperates ==
    /\ DlReading /\ ~peer_closed /\ inbox = <<>>
    /\ \E msg \in (CASE dl_pc = "await_bitfield" -> {Message(Bitfield, <<255>>, NoBlock)}
                     [] dl_pc = "await_unchoke"  -> {Message(Unchoke, <<>>, NoBlock)}
                     [] OTHER                    -> CooperatingPieces(req)) :
          inbox' = <<msg>>
    /\ UNCHANGED <<dl_info, piece_index, prior_file, output_file, peer_closed, events,
                   dl_piece_length, remaining_piece, req, accepted, dl_pc>>
    /\ UNCHANGED <<codecVars, metaVars, trackerVars, handshakeVars>>

\* the steps of download_piece when the stream and the file do not fail
DownloadEngine ==
    \/ ReadBitfield \/ SendInterested \/ ReadUnchoke \/ OpenOutput \/ EffectiveLength
    \/ SendRequest \/ ReadPiece \/ Complete

CooperatingNext ==
    \/ ReadBitfield \/ SendInterested \/ ReadUnchoke \/ OpenOutput \/ EffectiveLength
    \/ SendRequest \/ ReadPiece \/ Complete
    \/ PeerCooperates

DownloadNext ==
    \/ ReadBitfield \/ SendInterested \/ ReadUnchoke \/ OpenOutput \/ EffectiveLength
    \/ SendRequest \/ ReadPiece \/ WriteFails \/ Complete \/ MessageReadFails
    \/ PeerSends \/ PeerCloses

(***************************************************************************)
(* Claims about download_piece                                             *)
(***************************************************************************)
IsIn(e, id) == e.dir = "in" /\ e.msg.message_id = id
IsOut(e, id) == e.dir = "out" /\ e.msg.message_id = id

\* the Requests written to the stream, read back from their payload bytes
RequestOf(e) ==
    [index  |-> read_u32_be(e.msg.payload.bytes, 0),
     begin  |-> read_u32_be(e.msg.payload.bytes, 4),
     length |-> read_u32_be(e.msg.payload.bytes, 8)]
IsRequestEvent(e) == IsOut(e, 6)
SentRequests ==
    LET written == SelectSeq(events, IsRequestEvent)
    IN  [k \in 1..Len(written) |-> RequestOf(written[k])]

RECURSIVE SumLens(_)
SumLens(runs) == IF runs = <<>> THEN 0 ELSE Head(runs).len + SumLens(Tail(runs))

RECURSIVE SumLengths(_)
SumLengths(reqs) == IF reqs = <<>> THEN 0 ELSE Head(reqs).length + SumLengths(Tail(reqs))

\* C13: Interested (id 2) is written only after one message was read and it
\* was a Bitfield (id 5); a Request (id 6) is written only after Bitfield was
\* read, Interested written and Unchoke (id 1) read, in that order; when the
\* first message read is not a Bitfield, or the message read after Interested
\* is not an Unchoke, the engine has failed, nothing was written to the stream
\* after that read and the output file is as it was before the command.
C13_MessageOrdering ==
    /\ \A p \in DOMAIN events :
          IsOut(events[p], 2) => (p = 2 /\ IsIn(events[1], 5))
    /\ \A p \in DOMAIN events :
          IsOut(events[p], 6) =>
              (p > 3 /\ IsIn(events[1], 5) /\ IsOut(events[2], 2) /\ IsIn(events[3], 1))
    /\ (Len(events) >= 1 /\ ~IsIn(events[1], 5)) =>
          (dl_pc = "failed" /\ Len(events) = 1 /\ output_file = prior_file)
    /\ (Len(events) >= 3 /\ ~IsIn(events[3], 1)) =>
          (dl_pc = "failed" /\ Len(events) = 3 /\ output_file = prior_file)

\* C13 witness: after Bitfield and Interested the peer sent something other
\* than Unchoke, with a file already at the output path.
C13_Witness ==
    /\ Len(events) = 3 /\ IsIn(events[1], 5) /\ IsOut(events[2], 2)
    /\ events[3].dir = "in" /\ events[3].msg.message_id # 1
    /\ dl_pc = "failed" /\ prior_file.exists

\* C14: the k-th Request written carries the piece index, begin (k-1)*16384
\* and length min(16384, L - begin) > 0, L being the effective piece length,
\* so the requested ranges are contiguous and do not overlap; when the loop
\* has ended the lengths add up to L.
C14_BlockSplitting ==
    LET sent == SentRequests
    IN  /\ \A k \in DOMAIN sent :
              /\ sent[k].index = piece_index
              /\ sent[k].begin = (k - 1) * 16384
              /\ sent[k].length =
                    IF dl_piece_length - sent[k].begin < 16384
                      THEN dl_piece_length - sent[k].begin ELSE 16384
              /\ sent[k].length > 0
              /\ k > 1 => sent[k].begin = sent[k - 1].begin + sent[k - 1].length
        /\ dl_pc = "complete" => SumLengths(sent) = dl_piece_length

\* C14 witness: a piece of three blocks, the last one shorter, for a piece
\* index other than 0, was requested to its end.
C14_Witness ==
    /\ dl_pc = "complete" /\ piece_index > 0
    /\ Len(SentRequests) = 3 /\ SentRequests[3].length < 16384

\* C15: at every moment the number of Requests written minus the number of
\* Piece responses accepted is 0 or 1.
C15_OneOutstandingRequest ==
    Len(SentRequests) - Len(accepted) \in {0, 1}

\* C15 witness: a second Request is outstanding after the first was answered.
C15_Witness ==
    /\ Len(SentRequests) = 2 /\ Len(accepted) = 1 /\ dl_pc = "await_piece"

\* C16: a Piece response whose index or begin differs from the outstanding
\* Request's is rejected: no such response is ever accepted, and the blocks in
\* the output file are only those of responses that matched their request.
C16_MismatchedResponseRejected ==
    /\ \A k \in DOMAIN accepted :
          /\ accepted[k].resp.index = accepted[k].req.index
          /\ accepted[k].resp.begin = accepted[k].req.begin
    /\ \A k \in DOMAIN output_file.data :
          output_file.data[k].index >= 0 =>
              /\ output_file.data[k].index = piece_index
              /\ output_file.data[k].begin = (k - 1) * 16384

\* C17: for a torrent with piece_length > 0 and every piece index i below
\* ceil(length / piece_length), the effective length is piece_length for every
\* piece but the last and length - piece_length * i, which is > 0 and at most
\* piece_length, for the last; the effective lengths of all pieces add up to
\* length; the engine works with that length.
C17_EffectivePieceLength ==
    dl_info.piece_length > 0 =>
        LET n == (dl_info.length + dl_info.piece_length - 1) \div dl_info.piece_length
            lens == [k \in 1..n |-> [length |-> piece_length_of(dl_info, k - 1)]]
        IN  /\ \A i \in 0..(n - 2) : lens[i + 1].length = dl_info.piece_length
            /\ n > 0 =>
                  /\ lens[n].length = dl_info.length - dl_info.piece_length * (n - 1)
                  /\ lens[n].length > 0
                  /\ lens[n].length <= dl_info.piece_length
            /\ SumLengths(lens) = dl_info.length
            /\ (piece_index < n /\ dl_pc \in {"loop", "await_piece", "complete"}) =>
                  dl_piece_length = lens[piece_index + 1].length

\* C17 witness: the engine computed the length of the last of three pieces,
\* which is shorter than piece_length.
C17_Witness ==
    /\ dl_pc = "loop" /\ piece_index = 2
    /\ dl_info.length < 3 * dl_info.piece_length
    /\ dl_piece_length < dl_info.piece_length /\ dl_piece_length > 0

\* C18: Complete is reached only after a Piece response was accepted for
\* every block of the piece, each for the Request of that block; the output
\* file then holds exactly the accepted blocks in ascending order of the
\* requested begin, and its length is the effective piece length.
C18_CompleteAssembly ==
    dl_pc = "complete" =>
        /\ Len(accepted) = (dl_piece_length + 16383) \div 16384
        /\ Len(SentRequests) = Len(accepted)
        /\ [k \in DOMAIN accepted |-> accepted[k].req] = SentRequests
        /\ \A k \in DOMAIN accepted : accepted[k].req.begin = (k - 1) * 16384
        /\ output_file.exists
        /\ output_file.data = [k \in DOMAIN accepted |-> accepted[k].resp.block]
        /\ SumLens(output_file.data) = dl_piece_length

\* C18 witness: a piece of two blocks, the second shorter, is complete.
C18_Witness ==
    /\ dl_pc = "complete" /\ Len(accepted) = 2
    /\ output_file.data[2].len < 16384

\* the bytes of a file: adjoining runs of genuine bytes of one piece are one run
RECURSIVE Coalesce(_)
Coalesce(runs) ==
    IF Len(runs) < 2 THEN runs
    ELSE IF /\ runs[1].genuine /\ runs[2].genuine
            /\ runs[1].index = runs[2].index
            /\ runs[2].begin = runs[1].begin + runs[1].len
         THEN Coalesce(<<Run(runs[1].index, runs[1].begin,
                             runs[1].len + runs[2].len, TRUE)>> \o Tail(Tail(runs)))
         ELSE <<runs[1]>> \o Coalesce(Tail(runs))

\* piece_hashes()[index] of a torrent whose digests are those of its pieces
PieceDigest(info, index) ==
    Sha1(<<Run(index, 0,
               IF info.length - info.piece_length * index < info.piece_length
                 THEN info.length - info.piece_length * index
                 ELSE info.piece_length, TRUE)>>)

\* C19: a piece of the torrent is reported as downloaded only if the digest of
\* the bytes in the output file equals piece_hashes[index].
C19_DigestVerified ==
    (dl_pc = "complete" /\ dl_info.piece_length * piece_index < dl_info.length) =>
        Sha1(Coalesce(output_file.data)) = PieceDigest(dl_info, piece_index)

\* C20: when the download has failed, the output file holds no bytes written
\* by it.
C20_FailureNotHalfApplied ==
    dl_pc = "failed" =>
        \A k \in DOMAIN output_file.data : output_file.data[k].index = -1

\* C22: for every piece index, the step that evaluates
\* length - piece_length * index is taken only when piece_length * index is at
\* most length, and a Request is on the stream only for such an index: nothing
\* underflows or wraps and no Request length comes from a wrapped value.
C22_NoUnderflow ==
    /\ [][(dl_pc = "piece_length" /\ dl_pc' # "piece_length") =>
             dl_info.piece_length * piece_index <= dl_info.length]_vars
    /\ [](SentRequests # <<>> => dl_info.piece_length * piece_index <= dl_info.length)

\* C21: with a peer that sends Bitfield, Unchoke after Interested and one
\* Piece of the requested length for every Request, and every enabled step of
\* the engine and of that peer eventually taken, the engine eventually is
\* Complete having written exactly ceil(L / 16384) Requests, L being the
\* effective piece length; and while it waits for a message and none has
\* arrived, no step moves it out of that waiting state.
C21_Termination ==
    /\ <>(/\ dl_pc = "complete"
          /\ Len(SentRequests) = (dl_piece_length + 16383) \div 16384)
    /\ [][(/\ dl_pc \in {"await_bitfield", "await_unchoke", "await_piece"}
           /\ inbox = <<>>) => dl_pc' = dl_pc]_vars

(***************************************************************************)
(* Specifications                                                          *)
(***************************************************************************)
InitCodec == CodecInit /\ MetaIdle /\ TrackerIdle /\ HandshakeIdle /\ DownloadIdle
InitDict == DictInit /\ MetaIdle /\ TrackerIdle /\ HandshakeIdle /\ DownloadIdle
InitMetainfo == MetaInit /\ CodecIdle /\ TrackerIdle /\ HandshakeIdle /\ DownloadIdle
InitTracker == TrackerInit /\ CodecIdle /\ MetaIdle /\ HandshakeIdle /\ DownloadIdle
InitHandshake == HandshakeInit /\ CodecIdle /\ MetaIdle /\ TrackerIdle /\ DownloadIdle
InitDownload == DownloadInit /\ CodecIdle /\ MetaIdle /\ TrackerIdle /\ HandshakeIdle

SpecCodec == InitCodec /\ [][CodecNext]_vars
SpecDict == InitDict /\ [][DictNext]_vars
SpecMetainfo == InitMetainfo /\ [][MetaNext]_vars
SpecTracker == InitTracker /\ [][TrackerNext]_vars
SpecHandshake == InitHandshake /\ [][HandshakeNext]_vars
SpecDownload == InitDownload /\ [][DownloadNext]_vars
\* the download with a cooperating peer: the runtime runs the one task of main
\* whenever it can go on, and the peer sends what it owes
SpecCooperating ==
    /\ InitDownload /\ [][CooperatingNext]_vars
    /\ WF_vars(DownloadEngine) /\ WF_vars(PeerCooperates)

====
